---- MODULE Spec2Model ----
(***************************************************************************)
(* Model of backup.py: the tree scanner iter_files_with_size and the       *)
(* streaming archive writer backup_streaming, one run of the pipeline.     *)
(*                                                                         *)
(* A path is the sequence of its components below the source directory.    *)
(* A file's bytes are modelled by their positions (the k-th byte of a file *)
(* is k), so that a lost, repeated or reordered chunk shows in the data.   *)
(* Sizes are scaled: CHUNK_SIZE stands for the 8 MiB block of the code,    *)
(* file lengths range over lengths below, equal to and above it.           *)
(* The elapsed-seconds argument of the progress callback is left out: no   *)
(* statement of the writer reads it.                                       *)
(***************************************************************************)
EXTENDS Integers, Sequences, FiniteSets, TLC

\* ---------------------------------------------------------------- bounds
MaxFiles == 2         \* directory entries (of any kind) present in the tree
MaxBytes == 4         \* bytes in the tree at scan time, all files together
MaxClock == 1         \* seconds the clock may advance
MaxRuns == 2          \* runs of backup_streaming in a sequence of runs
CHUNK_SIZE == 2       \* backup.py:26, scaled from 8 MiB

\* The candidate tree: the files that may exist below the source directory.
AllFiles ==
    {<<"a">>, <<"b">>, <<".git", "x">>, <<"sub", "b">>, <<"sub", ".git", "x">>}

DirNames == {".git", "sub"}
FileNames == {"a", "b", "x"}
SourceName == "proj"  \* source.name
Deltas == {-1, 0, 1}  \* bytes a file may grow or shrink by after the scan

None == "None"
ZIP_STORED == "ZIP_STORED"
ZIP_DEFLATED == "ZIP_DEFLATED"

Front(s) == SubSeq(s, 1, Len(s) - 1)
Last(s) == s[Len(s)]
IsPrefix(d, p) == Len(d) <= Len(p) /\ SubSeq(p, 1, Len(d)) = d
Max(a, b) == IF a >= b THEN a ELSE b

AllDirs == UNION {{SubSeq(f, 1, n) : n \in 0 .. Len(f) - 1} : f \in AllFiles}

\* What the scan can observe of a directory entry that is not a directory:
\* it is absent, its stat fails ("nostat"), it is no regular file
\* ("notfile"), or it is a regular file of some size.
Absent == [kind |-> "absent", size |-> 0]
ScanStatus ==
    {Absent, [kind |-> "nostat", size |-> 0], [kind |-> "notfile", size |-> 0]}
    \cup {[kind |-> "file", size |-> n] : n \in 0 .. MaxBytes}

\* The position of a name in a directory listing (the listing order of the
\* file system, fixed for a run).
Rank(n) ==
    CASE n = ".git" -> 1
      [] n = "a" -> 2
      [] n = "b" -> 3
      [] n = "sub" -> 4
      [] n = "x" -> 5

RECURSIVE SortedSeq(_)
SortedSeq(S) ==
    IF S = {} THEN <<>>
    ELSE LET m == CHOOSE x \in S : \A y \in S : Rank(x) <= Rank(y)
         IN <<m>> \o SortedSeq(S \ {m})

\* The bytes of a file of length n.
FileBytes(n) == [i \in 1 .. n |-> i]

VARIABLES
    srcKind,      \* "missing" | "file" | "dir": what the source path names
    srcResolved,  \* whether the source path given equals its resolved form
    destKind,     \* "absent" | "dir" | "file": what dest_dir names
    excludes,     \* the exclusion set
    tree,         \* AllFiles -> ScanStatus: the tree as the scan finds it
    compression,  \* ZIP_STORED | ZIP_DEFLATED
    hasCb,        \* whether progress_cb was supplied
    pc,           \* position of the run
    walkStack,    \* os.walk: directories still to be listed, next first
    files,        \* iter_files_with_size: files
    total,        \* iter_files_with_size: total
    listed,       \* history: directories os.walk has listed
    statted,      \* history: files the scan has stat'd
    opened,       \* history: files opened for reading, with their bytes then
    zf,           \* archive handle: "none" | "open" | "closed"
    fr,           \* source file handle: "none" | "open" | "closed"
    fw,           \* entry handle: "none" | "open" | "closed"
    frData,       \* bytes of the open source file not yet read
    idx,          \* index in files of the file being written
    entries,      \* the archive's entries, in order
    onDisk,       \* whether the archive file exists in the destination
    processed,    \* backup_streaming: processed
    events,       \* progress events of the run: <<processed, total>>
    result,       \* "archive_path" once archivePath was returned, or None
    error         \* the exception that reached the caller, or None

VARIABLES
    clock,           \* datetime.now() in whole seconds
    archives,        \* the archive paths that exist in the destination
    archivePath,     \* backup_streaming: archive_path, or NoPath
    overwrote,       \* history: an existing archive was opened with mode "w"
    runNo,           \* number of the run of backup_streaming
    cancelRequested, \* a cancellation of the run has been requested
    afterCancel,     \* history: chunks written and files opened since then
    arcIn,           \* entry-name conversion: separator, base name, rel parts
    arcOut,          \* entry-name conversion: the string given to zf.open
    gpc,             \* GUI: position of each worker thread
    gpath,           \* GUI: archive_path of each worker
    gdone,           \* GUI: processed of each worker
    uiQueue,         \* GUI: callbacks handed to root.after, oldest first
    uiStatus,        \* GUI: status_var
    uiProgress,      \* GUI: what the progress bar shows, and for which run
    uiDone           \* GUI history: statuses set and dialogs shown

vars ==
    <<srcKind, srcResolved, destKind, excludes, tree, compression, hasCb, pc,
      walkStack, files, total, listed, statted, opened, zf, fr, fw, frData, idx,
      entries, onDisk, processed, events, result, error,
      clock, archives, archivePath, overwrote, runNo, cancelRequested,
      afterCancel, arcIn, arcOut, gpc, gpath, gdone, uiQueue, uiStatus,
      uiProgress, uiDone>>

inputs == <<srcKind, srcResolved, excludes, tree, compression, hasCb>>
scanVars == <<walkStack, files, total, listed, statted>>
writeVars == <<opened, zf, fr, fw, frData, idx, entries, onDisk, processed, events>>
runsVars == <<clock, archives, archivePath, overwrote, runNo>>
cancelVars == <<cancelRequested, afterCancel>>
arcVars == <<arcIn, arcOut>>
guiVars == <<gpc, gpath, gdone, uiQueue, uiStatus, uiProgress, uiDone>>

\* ------------------------------------------------------------ file system
Present(t) == {f \in AllFiles : t[f].kind # "absent"}

\* A directory exists when it is the source or something lies below it.
DirExists(d) == d = <<>> \/ \E f \in Present(tree) : IsPrefix(d, Front(f))

\* os.walk's listing of directory d: its sub-directory names and the names
\* of its other entries.
ListDirs(d) ==
    SortedSeq({n \in DirNames : d \o <<n>> \in AllDirs /\ DirExists(d \o <<n>>)})
ListFiles(d) ==
    SortedSeq({n \in FileNames : d \o <<n>> \in AllFiles /\ tree[d \o <<n>>].kind # "absent"})

RECURSIVE TreeBytes(_, _)
TreeBytes(t, S) ==
    IF S = {} THEN 0
    ELSE LET f == CHOOSE x \in S : TRUE
         IN t[f].size + TreeBytes(t, S \ {f})

\* ------------------------------------------------------------------ Init
NoTree == [f \in AllFiles |-> Absent]

Trees ==
    {t \in UNION {{[f \in AllFiles |-> IF f \in S THEN g[f] ELSE Absent] :
                     g \in [S -> ScanStatus \ {Absent}]} :
                  S \in {T \in SUBSET AllFiles : Cardinality(T) <= MaxFiles}} :
       TreeBytes(t, AllFiles) <= MaxBytes}

\* ------------------------------------------- state outside a single run
\* No archive path: archive_path is not bound yet.
NoPath == <<>>

\* backup.py:202: the worker threads of two clicks on Create Backup.
Workers == {1, 2}

\* No chunk written and no file opened since a cancellation was requested.
NoneYet == [chunks |-> 0, files |-> 0]

\* The entry-name conversion has not been applied.
ArcIdle ==
    /\ arcIn = [sep |-> "/", base |-> <<>>, rel |-> <<>>]
    /\ arcOut = <<>>

\* backup.py:99-111: the window after construction: no worker, nothing
\* queued, an empty progress bar.
GuiIdle ==
    /\ gpc = [w \in Workers |-> "off"]
    /\ gpath = [w \in Workers |-> NoPath]
    /\ gdone = [w \in Workers |-> 0]
    /\ uiQueue = <<>>
    /\ uiStatus = "Select"
    /\ uiProgress = [w |-> 0, done |-> 0, over |-> 0]
    /\ uiDone = {}

\* backup.py:55-60: the locals of backup_streaming when it is entered.
RunInit ==
    /\ pc = "start"
    /\ walkStack = <<>>
    /\ files = <<>>
    /\ total = 0
    /\ listed = {}
    /\ statted = {}
    /\ opened = <<>>
    /\ zf = "none"
    /\ fr = "none"
    /\ fw = "none"
    /\ frData = <<>>
    /\ idx = 0
    /\ entries = <<>>
    /\ onDisk = FALSE
    /\ processed = 0
    /\ events = <<>>
    /\ result = None
    /\ error = None
    /\ archivePath = NoPath

\* The first run: the clock at its origin, no archive in the destination,
\* no cancellation requested.
EnvInit ==
    /\ clock = 0
    /\ archives = {}
    /\ overwrote = FALSE
    /\ runNo = 1
    /\ cancelRequested = FALSE
    /\ afterCancel = NoneYet

Init ==
    /\ srcKind \in {"missing", "file", "dir"}
    /\ srcResolved \in BOOLEAN
    /\ destKind \in {"absent", "dir", "file"}
    /\ excludes \in SUBSET DirNames
    /\ tree \in (IF srcKind = "dir" THEN Trees ELSE {NoTree})
    /\ compression \in {ZIP_STORED, ZIP_DEFLATED}
    /\ hasCb \in BOOLEAN
    /\ RunInit
    /\ EnvInit
    /\ ArcIdle
    /\ GuiIdle

\* ------------------------------------------------------------ the scanner
\* Pruned without the filter: every sub-directory is descended into.
Pruned_keepAll(dirs) == dirs

\* backup.py:34: the sub-directories os.walk will descend into.
Pruned(dirs) == SelectSeq(dirs, LAMBDA n : n \notin excludes)

\* ScanNames with "total = st.st_size" for "total += st.st_size".
RECURSIVE ScanNames_assign(_, _)
ScanNames_assign(d, names) ==
    IF names = <<>> THEN [files |-> <<>>, total |-> 0]
    ELSE LET p == d \o <<Head(names)>>
             st == tree[p]
             rest == ScanNames_assign(d, Tail(names))
         IN IF st.kind = "nostat" THEN rest
            ELSE IF st.kind # "file" THEN rest
            ELSE [files |-> <<p>> \o rest.files, total |-> st.size]

\* ScanNames without the is_file test of line 42.
RECURSIVE ScanNames_noIsFile(_, _)
ScanNames_noIsFile(d, names) ==
    IF names = <<>> THEN [files |-> <<>>, total |-> 0]
    ELSE LET p == d \o <<Head(names)>>
             st == tree[p]
             rest == ScanNames_noIsFile(d, Tail(names))
         IN IF st.kind = "nostat" THEN rest
            ELSE [files |-> <<p>> \o rest.files, total |-> st.size + rest.total]

\* backup.py:36-44: the loop over the file names of directory d. The result
\* is the files appended and the bytes added to total.
RECURSIVE ScanNames(_, _)
ScanNames(d, names) ==
    IF names = <<>> THEN [files |-> <<>>, total |-> 0]
    ELSE LET p == d \o <<Head(names)>>
             st == tree[p]
             rest == ScanNames(d, Tail(names))
         IN IF st.kind = "nostat" THEN rest
            ELSE IF st.kind # "file" THEN rest
            ELSE [files |-> <<p>> \o rest.files, total |-> st.size + rest.total]

\* The exception leaves the function: the run has failed.
Raise(e) ==
    /\ pc' = "failed"
    /\ error' = e
    /\ result' = None

\* IsDir with source.exists() for source.is_dir().
IsDir_exists(kind) == kind # "missing"

\* backup.py:61: source.is_dir().
IsDir(kind) == kind = "dir"

\* backup.py:61-64: the directory check, mkdir, and the start of the walk.
Enter ==
    /\ pc = "start"
    /\ \/ /\ ~IsDir(srcKind)
          /\ Raise("NotADirectory")
          /\ UNCHANGED <<destKind, walkStack>>
       \/ /\ IsDir(srcKind)
          /\ destKind = "file"
          /\ Raise("MkdirError")
          /\ UNCHANGED <<destKind, walkStack>>
       \/ /\ IsDir(srcKind)
          /\ destKind # "file"
          /\ destKind' = "dir"
          /\ walkStack' = << <<>> >>
          /\ pc' = "scan"
          /\ UNCHANGED <<result, error>>
    /\ UNCHANGED <<inputs, files, total, listed, statted, writeVars>>
    /\ UNCHANGED <<runsVars, cancelVars, arcVars, guiVars>>

\* backup.py:33-44: one iteration of the loop over os.walk.
WalkDir ==
    /\ pc = "scan"
    /\ walkStack # <<>>
    /\ LET d == Head(walkStack)
           kept == Pruned(ListDirs(d))
           got == ScanNames(d, ListFiles(d))
       IN /\ walkStack' = [i \in 1 .. Len(kept) |-> d \o <<kept[i]>>] \o Tail(walkStack)
          /\ files' = files \o got.files
          /\ total' = total + got.total
          /\ listed' = listed \cup {d}
          /\ statted' = statted \cup {d \o <<ListFiles(d)[i]>> : i \in 1 .. Len(ListFiles(d))}
    /\ UNCHANGED <<inputs, destKind, pc, writeVars, result, error>>
    /\ UNCHANGED <<runsVars, cancelVars, arcVars, guiVars>>

\* NothingToBackUp with "not files" for "total == 0".
NothingToBackUp_noFiles(fs, t) == fs = <<>>

\* backup.py:65: the test for a source with nothing to back up.
NothingToBackUp(fs, t) == t = 0

\* backup.py:68: datetime.now().strftime("%Y%m%d-%H%M%S"): the clock to the
\* second.
Timestamp(t) == t

\* backup.py:69: dest_dir / f"{source.name}-{timestamp}.zip".
ArchivePath(ts) == <<SourceName, ts>>

\* backup.py:45, 65-72: the scan returns; an empty total is an error.
CheckTotal ==
    /\ pc = "scan"
    /\ walkStack = <<>>
    /\ \/ /\ NothingToBackUp(files, total)
          /\ Raise("NoFiles")
          /\ UNCHANGED archivePath
       \/ /\ ~NothingToBackUp(files, total)
          /\ archivePath' = ArchivePath(Timestamp(clock))
          /\ pc' = "open"
          /\ UNCHANGED <<result, error>>
    /\ UNCHANGED <<inputs, destKind, scanVars, writeVars>>
    /\ UNCHANGED <<clock, archives, overwrote, runNo, cancelVars, arcVars, guiVars>>

\* ------------------------------------------------------------- the writer
\* WithExit for a handle opened without a with block: it stays open.
WithExit_leak(h) == h

\* Leaving a with block closes the handle it opened.
WithExit(h) == IF h = "open" THEN "closed" ELSE h

\* backup.py:83-85: the entry name of file f.
ArcName(f) == <<SourceName>> \o f

\* The lengths file f may have when the writer opens it.
WriteLens(f) == {Max(0, tree[f].size + d) : d \in Deltas}

\* ReadChunk for a loop that stops at the first short block.
ReadChunk_fullOnly(data) ==
    IF Len(data) < CHUNK_SIZE THEN <<>> ELSE SubSeq(data, 1, CHUNK_SIZE)

\* backup.py:87: fr.read(CHUNK_SIZE).
ReadChunk(data) == SubSeq(data, 1, IF Len(data) < CHUNK_SIZE THEN Len(data) ELSE CHUNK_SIZE)
AfterRead(data) == SubSeq(data, Len(ReadChunk(data)) + 1, Len(data))

\* Advance with "processed += CHUNK_SIZE".
Advance_block(p, chunk) == p + CHUNK_SIZE

\* backup.py:91: processed += len(chunk).
Advance(p, chunk) == p + Len(chunk)

\* backup.py:92-95: the callback is invoked when one was supplied.
Emit(evs, e) == IF hasCb THEN Append(evs, e) ELSE evs

\* FinalEvent with "progress_cb(processed, total, ...)".
FinalEvent_processed == <<processed, total>>

\* backup.py:95: the arguments of the final invocation.
FinalEvent == <<total, total>>

\* Abort for a copy loop that records the failure and goes on with the
\* rest of the files.
Abort_goOn(e) ==
    /\ fw' = WithExit(fw)
    /\ fr' = WithExit(fr)
    /\ zf' = zf
    /\ frData' = <<>>
    /\ pc' = "copy"
    /\ error' = e
    /\ result' = None

\* An exception leaves the with blocks of lines 74 and 85, then the function.
Abort(e) ==
    /\ fw' = WithExit(fw)
    /\ fr' = WithExit(fr)
    /\ zf' = WithExit(zf)
    /\ frData' = <<>>
    /\ Raise(e)

\* backup.py:74-75: mode "w" creates the file, and truncates it when a file
\* of that path exists.
Truncates(existing, path) == path \in existing

\* The history of work done after a cancellation request: one more of kind k.
Since(h, k) == IF cancelRequested THEN [h EXCEPT ![k] = @ + 1] ELSE h

\* backup.py:74-81: the archive is created and opened for writing.
OpenArchive ==
    /\ pc = "open"
    /\ \/ /\ zf' = "open"
          /\ onDisk' = TRUE
          /\ archives' = archives \cup {archivePath}
          /\ overwrote' = (overwrote \/ Truncates(archives, archivePath))
          /\ idx' = 1
          /\ pc' = "files"
          /\ UNCHANGED <<result, error>>
       \/ /\ Raise("ArchiveOpenError")
          /\ UNCHANGED <<zf, onDisk, idx, archives, overwrote>>
    /\ UNCHANGED <<inputs, destKind, scanVars, opened, fr, fw, frData, entries,
                   processed, events>>
    /\ UNCHANGED <<clock, archivePath, runNo, cancelVars, arcVars, guiVars>>

\* FileAt for a loop that takes the files from the end of the list.
FileAt_reversed(fs, i) == fs[Len(fs) + 1 - i]

\* backup.py:82: the file of the i-th iteration of "for fpath in files".
FileAt(fs, i) == fs[i]

\* backup.py:82-85: the next file: its entry name, the source file opened for
\* reading and the entry opened for writing.
BeginFile ==
    /\ pc = "files"
    /\ idx <= Len(files)
    /\ LET f == FileAt(files, idx)
       IN \/ /\ ~srcResolved
             /\ Abort("RelativeToError")
             /\ UNCHANGED <<opened, entries, afterCancel>>
          \/ /\ srcResolved                \* fpath.open fails
             /\ Abort("SourceOpenError")
             /\ UNCHANGED <<opened, entries, afterCancel>>
          \/ /\ srcResolved
             /\ \E n \in WriteLens(f) :
                  /\ opened' = Append(opened, [path |-> f, data |-> FileBytes(n)])
                  /\ frData' = FileBytes(n)
             /\ fr' = "open"
             /\ fw' = "open"
             /\ entries' = Append(entries, [name |-> ArcName(f), data |-> <<>>,
                                            compress_type |-> compression])
             /\ afterCancel' = Since(afterCancel, "files")
             /\ pc' = "copy"
             /\ UNCHANGED <<zf, result, error>>
    /\ UNCHANGED <<inputs, destKind, scanVars, idx, onDisk, processed, events>>
    /\ UNCHANGED <<runsVars, cancelRequested, arcVars, guiVars>>

\* backup.py:86-93: one iteration of the copy loop.
CopyChunk ==
    /\ pc = "copy"
    /\ LET chunk == ReadChunk(frData)
           n == Len(entries)
       IN \/ /\ Abort("ReadError")       \* fr.read fails
             /\ UNCHANGED <<idx, entries, processed, events, afterCancel>>
          \/ /\ chunk = <<>>             \* end of file: break
             /\ fw' = WithExit(fw)
             /\ fr' = WithExit(fr)
             /\ idx' = idx + 1
             /\ pc' = "files"
             /\ UNCHANGED <<zf, frData, entries, processed, events, result, error>>
             /\ UNCHANGED afterCancel
          \/ /\ chunk # <<>>             \* fw.write fails
             /\ Abort("WriteError")
             /\ UNCHANGED <<idx, entries, processed, events, afterCancel>>
          \/ /\ chunk # <<>>
             /\ entries' = [entries EXCEPT ![n].data = @ \o chunk]
             /\ processed' = Advance(processed, chunk)
             /\ events' = Emit(events, <<processed', total>>)
             /\ \/ /\ frData' = AfterRead(frData)
                   /\ UNCHANGED <<zf, fr, fw, pc, result, error>>
                \/ /\ hasCb              \* progress_cb raises
                   /\ Abort("CallbackError")
             /\ afterCancel' = Since(afterCancel, "chunks")
             /\ UNCHANGED idx
    /\ UNCHANGED <<inputs, destKind, scanVars, opened, onDisk>>
    /\ UNCHANGED <<runsVars, cancelRequested, arcVars, guiVars>>

\* backup.py:82, 93: the loop over files ends and the archive's with block
\* is left.
CloseArchive ==
    /\ pc = "files"
    /\ idx > Len(files)
    /\ zf' = WithExit(zf)
    /\ \/ /\ pc' = "final"
          /\ UNCHANGED <<result, error>>
       \/ Raise("ArchiveCloseError")     \* writing the end records fails
    /\ UNCHANGED <<inputs, destKind, scanVars, opened, fr, fw, frData, idx, entries,
                   onDisk, processed, events>>
    /\ UNCHANGED <<runsVars, cancelVars, arcVars, guiVars>>

\* backup.py:94-96: the final progress event and the return.
Finish ==
    /\ pc = "final"
    /\ events' = Emit(events, FinalEvent)
    /\ \/ /\ pc' = "returned"
          /\ result' = "archive_path"
          /\ UNCHANGED error
       \/ /\ hasCb
          /\ Raise("CallbackError")
    /\ UNCHANGED <<inputs, destKind, scanVars, opened, zf, fr, fw, frData, idx,
                   entries, onDisk, processed>>
    /\ UNCHANGED <<runsVars, cancelVars, arcVars, guiVars>>

Next ==
    \/ Enter
    \/ WalkDir
    \/ CheckTotal
    \/ OpenArchive
    \/ BeginFile
    \/ CopyChunk
    \/ CloseArchive
    \/ Finish

Spec == Init /\ [][Next]_vars

\* ------------------------------------------------------------ the claims
\* A path lies below a directory whose name is excluded.
UnderExcluded(p) == \E i \in 1 .. Len(p) - 1 : p[i] \in excludes

Done == pc \in {"returned", "failed"}

\* The number of blocks a file of n bytes is copied in.
Chunks(n) == (n + CHUNK_SIZE - 1) \div CHUNK_SIZE

RECURSIVE ChunksWritten(_)
ChunksWritten(es) ==
    IF es = <<>> THEN 0 ELSE Chunks(Len(Head(es).data)) + ChunksWritten(Tail(es))

RECURSIVE ScanSum(_)
ScanSum(fs) == IF fs = <<>> THEN 0 ELSE tree[Head(fs)].size + ScanSum(Tail(fs))

\* Every file written so far had, when opened, the size the scan saw.
SizesKept == \A i \in 1 .. Len(opened) : Len(opened[i].data) = tree[opened[i].path].size

\* The regular files the exclusion set leaves in the tree.
Visible == {f \in AllFiles : tree[f].kind = "file" /\ ~UnderExcluded(f)}

\* The failures of line 85 to 90: a source file cannot be opened or read, or
\* the chunk cannot be written.
EntryFailures == {"SourceOpenError", "ReadError", "WriteError"}

\* C1: no archive entry is a file below a directory with an excluded name, and
\* the run lists no such directory and stats or opens no file below one.
C1_ExcludedNeverTouched ==
    /\ \A i \in 1 .. Len(entries) : ~UnderExcluded(Tail(entries[i].name))
    /\ \A d \in listed : \A i \in 1 .. Len(d) : d[i] \notin excludes
    /\ \A f \in statted : ~UnderExcluded(f)
    /\ \A i \in 1 .. Len(opened) : ~UnderExcluded(opened[i].path)
    /\ \A i \in 1 .. Len(files) : ~UnderExcluded(files[i])

\* A run has returned with the one entry "proj/sub/b" while a regular file
\* with bytes lay in "sub/.git", excluded at the second level.
C1_Witness ==
    /\ pc = "returned"
    /\ excludes = {".git"}
    /\ tree[<<"sub", ".git", "x">>].kind = "file"
    /\ tree[<<"sub", ".git", "x">>].size > 0
    /\ tree[<<"sub", "b">>].kind = "file"
    /\ Len(entries) = 1

\* C2: when the run returns an archive path, the entries are the files of the
\* scan result, in order and under their entry names, and the chunks written
\* to each entry make up the bytes the file had when it was opened.
C2_RoundTrip ==
    pc = "returned" =>
        /\ Len(entries) = Len(files)
        /\ Len(opened) = Len(files)
        /\ \A i \in 1 .. Len(files) :
             /\ entries[i].name = ArcName(files[i])
             /\ opened[i].path = files[i]
             /\ entries[i].data = opened[i].data
             /\ entries[i].compress_type = compression

\* A deflate run has returned with an empty entry and an entry of more than
\* two blocks whose last block is short.
C2_Witness ==
    /\ pc = "returned"
    /\ compression = ZIP_DEFLATED
    /\ \E i, j \in 1 .. Len(entries) :
         /\ entries[i].data = <<>>
         /\ Len(entries[j].data) > 2 * CHUNK_SIZE
         /\ Len(entries[j].data) % CHUNK_SIZE # 0

\* C3 (as stated): bytesProcessed never decreases from one progress event of
\* a run to the next, the final event included.
C3_NonDecreasing ==
    \A i \in 1 .. Len(events) - 1 : events[i][1] <= events[i + 1][1]

\* C4 (as stated), on the runs in which every file has at write time the
\* size the scan saw: exactly one event has bytesProcessed = bytesTotal, it is
\* the last one, and every earlier event is strictly below bytesTotal.
C4_ExactlyOnce ==
    (pc = "returned" /\ hasCb /\ SizesKept) =>
        /\ Cardinality({i \in 1 .. Len(events) : events[i][1] = events[i][2]}) = 1
        /\ Last(events)[1] = Last(events)[2]
        /\ \A i \in 1 .. Len(events) - 1 : events[i][1] < events[i][2]

\* C4 (amended): the last event of a successful run has bytesProcessed =
\* bytesTotal. When every file has at write time the size the scan saw, the
\* event of the last chunk written has bytesProcessed = bytesTotal as well,
\* so exactly two events do, and every event before those is strictly below.
C4_LastAndLastChunk ==
    (pc = "returned" /\ hasCb) =>
        /\ events # <<>>
        /\ Last(events)[1] = Last(events)[2]
        /\ SizesKept =>
             /\ Len(events) >= 2
             /\ events[Len(events) - 1][1] = events[Len(events) - 1][2]
             /\ \A i \in 1 .. Len(events) - 2 : events[i][1] < events[i][2]

\* A run over unchanged files has returned after three chunk events.
C4_Witness ==
    /\ pc = "returned"
    /\ hasCb
    /\ SizesKept
    /\ Len(events) = 4
    /\ Len(files) = 2

\* C5: a run that returns, with a callback supplied, has made one invocation
\* per chunk written and then exactly one more, with processed = total, which
\* is the last event of the run.
C5_FinalEvent ==
    (pc = "returned" /\ hasCb) =>
        /\ Len(events) = ChunksWritten(entries) + 1
        /\ Last(events) = <<total, total>>

\* A run has returned whose chunk events stopped short of the total: a file
\* had shrunk after the scan.
C5_Witness ==
    /\ pc = "returned"
    /\ hasCb
    /\ Len(events) >= 2
    /\ events[Len(events) - 1][1] < total

\* C6: bytesTotal is, in every progress event, the sum of the sizes the scan
\* saw for the files of the scan result, whatever the files hold at write
\* time.
C6_TotalIsScanSum ==
    /\ \A i \in 1 .. Len(events) : events[i][2] = ScanSum(files)
    /\ pc \notin {"start", "scan"} => total = ScanSum(files)

\* A run over two files has returned with events, one file having changed
\* size after the scan.
C6_Witness ==
    /\ pc = "returned"
    /\ Len(files) = 2
    /\ Len(events) >= 3
    /\ ~SizesKept

\* C7: when the regular files left by the exclusion set hold no byte (and
\* the destination is or can be made a directory), the run fails with the
\* empty-source error: the archive is never opened or created, no progress
\* event is emitted and no path is returned.
C7_EmptySource ==
    (srcKind = "dir" /\ destKind # "file" /\ \A f \in Visible : tree[f].size = 0) =>
        /\ pc \in {"start", "scan", "failed"}
        /\ pc = "failed" => error = "NoFiles"
        /\ zf = "none"
        /\ ~onDisk
        /\ entries = <<>>
        /\ events = <<>>
        /\ result = None

\* The run has failed with the empty-source error on a tree whose only
\* bytes lie below an excluded directory.
C7_Witness ==
    /\ pc = "failed"
    /\ error = "NoFiles"
    /\ \E f \in AllFiles : tree[f].kind = "file" /\ tree[f].size > 0 /\ UnderExcluded(f)

\* C8: when the source is missing or is no directory, the run fails with the
\* invalid-source error and does nothing else: the destination is left as it
\* was, nothing is scanned, no archive is created, no event is emitted.
C8_InvalidSource ==
    /\ [](srcKind # "dir" =>
            /\ pc \in {"start", "failed"}
            /\ pc = "failed" => error = "NotADirectory"
            /\ listed = {}
            /\ statted = {}
            /\ files = <<>>
            /\ zf = "none"
            /\ ~onDisk
            /\ events = <<>>
            /\ result = None)
    /\ [][srcKind # "dir" => destKind' = destKind]_vars

\* The run has failed on a source that is a regular file, the destination
\* directory still absent.
C8_Witness ==
    /\ pc = "failed"
    /\ srcKind = "file"
    /\ destKind = "absent"

\* A step that opens no file, writes no entry and emits no event.
NothingMore ==
    /\ opened' = opened
    /\ entries' = entries
    /\ events' = events
    /\ onDisk' = onDisk
    /\ error' = error

\* C9: once opening or reading a source file or writing a chunk has failed,
\* the run has failed: the failure is the caller's, no path is returned, the
\* archive file is on disk, the events are the chunk events made before
\* (no final event), and from then on no file is opened, no entry is
\* written and no event is emitted.
C9_AbortOnEntryFailure ==
    /\ [](error \in EntryFailures =>
            /\ pc = "failed"
            /\ result = None
            /\ onDisk
            /\ Len(opened) = Len(entries)
            /\ Len(events) = (IF hasCb THEN ChunksWritten(entries) ELSE 0))
    /\ [][(error \in EntryFailures) => NothingMore]_vars

\* The second file of the scan result could not be opened, after the first
\* was written with events; a partial archive is on disk.
C9_Witness ==
    /\ pc = "failed"
    /\ error = "SourceOpenError"
    /\ Len(files) = 2
    /\ Len(entries) = 1
    /\ events # <<>>
    /\ onDisk

\* C10: when control returns to the caller, by return or by exception, no
\* handle is open: the archive handle, once opened, is closed, and so are
\* the source-file and entry handles.
C10_HandlesClosed ==
    Done =>
        /\ zf # "open"
        /\ fr # "open"
        /\ fw # "open"
        /\ onDisk => zf = "closed"

\* The callback raised during the copy of a file: the three handles were
\* open and are closed.
C10_Witness ==
    /\ pc = "failed"
    /\ error = "CallbackError"
    /\ zf = "closed"
    /\ fr = "closed"
    /\ fw = "closed"
    /\ Len(frData) = 0
    /\ Len(entries) = 2

\* The scan has listed the source and has no directory left to list.
ScanComplete == listed # {} /\ walkStack = <<>>

\* C13: the scan raises nothing; a name whose stat fails or that is no
\* regular file is left out and adds nothing; the files returned are, once
\* each, the regular files the exclusion set leaves, and total is the sum of
\* their stat sizes.
C13_ScanSkips ==
    /\ pc = "scan" => error = None
    /\ ScanComplete =>
         /\ {files[i] : i \in 1 .. Len(files)} = Visible
         /\ Cardinality(Visible) = Len(files)
         /\ total = ScanSum(files)
         /\ \A f \in Present(tree) : UnderExcluded(f) \/ f \in statted

\* A run has returned one entry from a tree that held, besides the file, a
\* name whose stat failed; the scan had stat'd both.
C13_Witness ==
    /\ pc = "returned"
    /\ Len(files) = 1
    /\ \E f \in statted : tree[f].kind = "nostat"

\* A step that opens an entry finds the handles of the previous one closed.
OneAtATime == Len(entries') > Len(entries) => (fw # "open" /\ fr # "open")

\* A step taken with the archive opened leaves the scan result as it is.
ScanFixed == zf # "none" => (files' = files /\ total' = total)

\* C14: the archive is opened only when the scan is over, and from then on
\* the file list and the total do not change; the entries are the files of
\* the scan list in its order; an entry is opened only when the one before
\* holds all the bytes of its file and its handles are closed.
C14_ScanThenInOrder ==
    /\ [](/\ zf # "none" => (walkStack = <<>> /\ pc \notin {"start", "scan"})
          /\ Len(entries) <= Len(files)
          /\ \A i \in 1 .. Len(entries) :
               /\ entries[i].name = ArcName(files[i])
               /\ opened[i].path = files[i]
          /\ \A i \in 1 .. Len(entries) - 1 : entries[i].data = opened[i].data
          /\ fw = "open" => Len(entries) = idx)
    /\ [][OneAtATime]_vars
    /\ [][ScanFixed]_vars

\* The second file of the scan list is being copied, the first entry
\* written in two chunks or more.
C14_Witness ==
    /\ pc = "copy"
    /\ Len(entries) = 2
    /\ fw = "open"
    /\ Len(entries[1].data) > CHUNK_SIZE
    /\ entries[2].data # <<>>

\* C17 (as stated): the run fails with the empty-source error exactly when
\* the scan returned no file.
C17_EmptyIffNoFiles ==
    (error = "NoFiles") <=> (ScanComplete /\ pc # "scan" /\ files = <<>>)

\* C18 (as stated): every scanned file lies under the source path the write
\* pass takes the relative names from, so no run fails on that, after the
\* archive was created.
C18_ScannedUnderSource == ~(onDisk /\ error = "RelativeToError")

\* ------------------------------------- runs in a small, healthy setting
\* A source directory given in resolved form, an existing destination, no
\* exclusions, and regular files only, all in the top directory.
InitSmall ==
    /\ Init
    /\ srcKind = "dir"
    /\ srcResolved
    /\ destKind = "dir"
    /\ excludes = {}
    /\ compression = ZIP_STORED
    /\ hasCb
    /\ \A f \in Present(tree) : Len(f) = 1 /\ tree[f].kind = "file"

\* A cancellation of the run is requested while the write pass is going on.
RequestCancel ==
    /\ pc \in {"files", "copy"}
    /\ ~cancelRequested
    /\ cancelRequested' = TRUE
    /\ UNCHANGED <<inputs, destKind, pc, scanVars, writeVars, result, error>>
    /\ UNCHANGED <<runsVars, afterCancel, arcVars, guiVars>>

NextCancel ==
    \/ Next
    \/ RequestCancel

SpecCancel == InitSmall /\ [][NextCancel]_vars

\* C15: once a cancellation has been requested, the write pass writes at
\* most the chunk in progress, writes no chunk after it, opens no further
\* file, and the archive is closed when the run is over.
C15_CancelStops ==
    /\ afterCancel.chunks <= 1
    /\ afterCancel.files = 0
    /\ (cancelRequested /\ Done) => zf = "closed"

\* ------------------------------------------------------ a sequence of runs
\* The clock reaches the next second.
Tick ==
    /\ clock < MaxClock
    /\ clock' = clock + 1
    /\ UNCHANGED <<inputs, destKind, pc, scanVars, writeVars, result, error>>
    /\ UNCHANGED <<archives, archivePath, overwrote, runNo, cancelVars, arcVars, guiVars>>

\* backup.py:55-72, 261: backup_streaming is called again with the same
\* arguments, once the run before it is over: its locals are fresh, the
\* destination keeps the archives written so far.
NewRun ==
    /\ Done
    /\ runNo < MaxRuns
    /\ runNo' = runNo + 1
    /\ pc' = "start"
    /\ walkStack' = <<>>
    /\ files' = <<>>
    /\ total' = 0
    /\ listed' = {}
    /\ statted' = {}
    /\ opened' = <<>>
    /\ zf' = "none"
    /\ fr' = "none"
    /\ fw' = "none"
    /\ frData' = <<>>
    /\ idx' = 0
    /\ entries' = <<>>
    /\ onDisk' = FALSE
    /\ processed' = 0
    /\ events' = <<>>
    /\ result' = None
    /\ error' = None
    /\ archivePath' = NoPath
    /\ UNCHANGED <<inputs, destKind, clock, archives, overwrote, cancelVars, arcVars, guiVars>>

NextRuns ==
    \/ Next
    \/ Tick
    \/ NewRun

SpecRuns == InitSmall /\ [][NextRuns]_vars

\* C11: in any sequence of runs, two of them in the same clock second
\* included, no run opens for writing an archive path that already exists
\* in the destination: no archive is overwritten.
C11_NeverOverwrites == ~overwrote

\* ------------------------------------------------------- the entry name
\* A string is a sequence of characters. BACKSLASH is the one-character
\* string that holds a backslash.
BACKSLASH == "\\"
SLASH == "/"
Chars == {"a", BACKSLASH}
MaxNameLen == 2
MaxDepth == 2

\* The names a path component can have on a host whose separator is sep:
\* no component holds the separator.
Names(sep) ==
    LET cs == Chars \ {sep}
    IN UNION {[1 .. n -> cs] : n \in 1 .. MaxNameLen}

\* The base names a source can have; that of a root directory is empty.
BaseNames(sep) == Names(sep) \cup {<<>>}

\* The paths of the files relative to the source, as component sequences.
RelPaths(sep) == UNION {[1 .. n -> Names(sep)] : n \in 1 .. MaxDepth}

\* The base name of a source and the relative path of one of its files, on
\* a host whose separator is sep.
ArcInputs(sep) ==
    {[sep |-> sep, base |-> b, rel |-> r] : b \in BaseNames(sep), r \in RelPaths(sep)}

\* The strings of parts with sep between them.
RECURSIVE JoinWith(_, _)
JoinWith(parts, sep) ==
    IF parts = <<>> THEN <<>>
    ELSE IF Len(parts) = 1 THEN parts[1]
    ELSE parts[1] \o <<sep>> \o JoinWith(Tail(parts), sep)

\* backup.py:84: Path(source.name): an empty name gives the path with no
\* component.
PathOf(name) == IF name = <<>> THEN <<>> ELSE <<name>>

\* backup.py:84: the operator / of two relative paths.
JoinPath(a, b) == a \o b

\* backup.py:85: str(arcname): the components with the host's separator
\* between them.
Str(sep, parts) == IF parts = <<>> THEN <<".">> ELSE JoinWith(parts, sep)

\* backup.py:85: s.replace(old, new).
Replace(s, old, new) == [i \in 1 .. Len(s) |-> IF s[i] = old THEN new ELSE s[i]]

\* EntryName without the replace of line 85.
EntryName_noReplace(sep, base, rel) == Str(sep, JoinPath(PathOf(base), rel))

\* backup.py:84-85: the name under which zf.open creates the entry.
EntryName(sep, base, rel) ==
    Replace(Str(sep, JoinPath(PathOf(base), rel)), BACKSLASH, SLASH)

InitArc ==
    /\ srcKind = "dir"
    /\ srcResolved = TRUE
    /\ destKind = "dir"
    /\ excludes = {}
    /\ tree = NoTree
    /\ compression = ZIP_STORED
    /\ hasCb = FALSE
    /\ RunInit
    /\ EnvInit
    /\ GuiIdle
    /\ \E sep \in {SLASH, BACKSLASH} : arcIn \in ArcInputs(sep)
    /\ arcOut = <<>>

\* backup.py:84-85: the entry name of one file is computed.
ApplyEntryName ==
    /\ arcOut = <<>>
    /\ arcOut' = EntryName(arcIn.sep, arcIn.base, arcIn.rel)
    /\ UNCHANGED <<inputs, destKind, pc, scanVars, writeVars, result, error>>
    /\ UNCHANGED <<runsVars, cancelVars, arcIn, guiVars>>

SpecArc == InitArc /\ [][ApplyEntryName]_vars

HasBackslash(s) == \E i \in 1 .. Len(s) : s[i] = BACKSLASH
ArcParts == <<arcIn.base>> \o arcIn.rel
SlashJoined == JoinWith(ArcParts, SLASH)

\* C12 as stated: on every host the entry name is the base name and the
\* components of the relative path with single forward slashes between
\* them, begins with the base name and a slash, and holds no backslash.
C12_EntryName ==
    arcOut # <<>> =>
        /\ arcOut = SlashJoined
        /\ IsPrefix(arcIn.base \o <<SLASH>>, arcOut)
        /\ ~HasBackslash(arcOut)

\* C12: on every host the entry name is the source's base name (left out
\* when it is empty) and the components of the relative path with single
\* forward slashes between them, each backslash inside a component turned
\* into a forward slash too: it holds no backslash. When the base name is
\* not empty and neither it nor a component of the relative path holds a
\* backslash, the entry name is exactly the base name and the components
\* joined by forward slashes, and begins with the base name and a slash.
C12_EntryNameClean ==
    arcOut # <<>> =>
        /\ ~HasBackslash(arcOut)
        /\ arcOut = [i \in 1 .. Len(JoinWith(PathOf(arcIn.base) \o arcIn.rel, SLASH)) |->
                        LET c == JoinWith(PathOf(arcIn.base) \o arcIn.rel, SLASH)[i]
                        IN IF c = BACKSLASH THEN SLASH ELSE c]
        /\ (arcIn.base # <<>> /\ \A i \in 1 .. Len(ArcParts) : ~HasBackslash(ArcParts[i]))
              => /\ arcOut = SlashJoined
                 /\ IsPrefix(arcIn.base \o <<SLASH>>, arcOut)

\* A file two levels down on a host whose separator is the backslash.
C12_Witness ==
    /\ arcOut # <<>>
    /\ arcIn.sep = BACKSLASH
    /\ arcIn.base # <<>>
    /\ Len(arcIn.rel) = 2
    /\ arcOut = SlashJoined

\* ------------------------------------------------------- the GUI's workers
callVars == <<inputs, destKind, pc, scanVars, writeVars, result, error>>

\* backup.py:29-45: iter_files_with_size as a function of the tree: the walk
\* from the directories of stack.
RECURSIVE IterFiles(_)
IterFiles(stack) ==
    IF stack = <<>> THEN [files |-> <<>>, total |-> 0]
    ELSE LET d == Head(stack)
             kept == Pruned(ListDirs(d))
             got == ScanNames(d, ListFiles(d))
             rest == IterFiles([i \in 1 .. Len(kept) |-> d \o <<kept[i]>>] \o Tail(stack))
         IN [files |-> got.files \o rest.files, total |-> got.total + rest.total]

\* backup.py:188: files, total of the worker's scan.
GuiScan == IterFiles(<< <<>> >>)

\* backup.py:204-216, 198, 201: a callback handed to root.after.
Cb(k, w, t, d) == [kind |-> k, w |-> w, text |-> t, done |-> d]

\* The worker thread of run w has been started and has not ended.
InProgress(w) == gpc[w] \notin {"off", "done", "failed"}

\* backup.py:183, 207-216: the progress widgets are set for run w; over is
\* the run still in progress whose progress they showed until then.
Shown(w, d) ==
    [w |-> w, done |-> d,
     over |-> IF uiProgress.w \notin {0, w} /\ InProgress(uiProgress.w)
              THEN uiProgress.w ELSE 0]

\* backup.py:165-184, 202: Create Backup is clicked: the widgets are reset
\* and a worker thread is started. Nothing keeps a click from starting a
\* worker while another is running.
StartBackup(w) ==
    /\ gpc[w] = "off"
    /\ \A v \in Workers : v < w => gpc[v] # "off"
    /\ gpc' = [gpc EXCEPT ![w] = "scan"]
    /\ uiStatus' = "Scanning files"
    /\ uiProgress' = Shown(w, 0)
    /\ UNCHANGED <<gpath, gdone, uiQueue, uiDone>>
    /\ UNCHANGED <<callVars, runsVars, cancelVars, arcVars>>

\* backup.py:188-192: the worker's scan.
WorkerScan(w) ==
    /\ gpc[w] = "scan"
    /\ \/ /\ NothingToBackUp(GuiScan.files, GuiScan.total)
          /\ uiQueue' = uiQueue \o <<Cb("status", w, "No files to back up.", 0)>>
          /\ gpc' = [gpc EXCEPT ![w] = "done"]
       \/ /\ ~NothingToBackUp(GuiScan.files, GuiScan.total)
          /\ uiQueue' = uiQueue \o <<Cb("status", w, "Backing up", 0),
                                     Cb("progress", w, "", 0)>>
          /\ gpc' = [gpc EXCEPT ![w] = "enter"]
    /\ UNCHANGED <<gpath, gdone, uiStatus, uiProgress, uiDone>>
    /\ UNCHANGED <<callVars, runsVars, cancelVars, arcVars>>

\* backup.py:195, 61-72: the worker enters backup_streaming, which scans
\* and names its archive.
WorkerEnter(w) ==
    /\ gpc[w] = "enter"
    /\ gpath' = [gpath EXCEPT ![w] = ArchivePath(Timestamp(clock))]
    /\ gpc' = [gpc EXCEPT ![w] = "open"]
    /\ UNCHANGED <<gdone, uiQueue, uiStatus, uiProgress, uiDone>>
    /\ UNCHANGED <<callVars, runsVars, cancelVars, arcVars>>

\* backup.py:74-81: the worker opens its archive for writing.
WorkerOpen(w) ==
    /\ gpc[w] = "open"
    /\ archives' = archives \cup {gpath[w]}
    /\ overwrote' = (overwrote \/ Truncates(archives, gpath[w]))
    /\ gpc' = [gpc EXCEPT ![w] = "write"]
    /\ UNCHANGED <<gpath, gdone, uiQueue, uiStatus, uiProgress, uiDone>>
    /\ UNCHANGED <<callVars, clock, archivePath, runNo, cancelVars, arcVars>>

\* backup.py:86-93, 193-194: the worker copies one chunk and on_progress
\* posts the progress, or the copy fails with an exception.
WorkerChunk(w) ==
    /\ gpc[w] = "write"
    /\ gdone[w] < GuiScan.total
    /\ \/ /\ gdone' = [gdone EXCEPT ![w] =
                          IF GuiScan.total - @ < CHUNK_SIZE THEN GuiScan.total
                          ELSE @ + CHUNK_SIZE]
          /\ uiQueue' = Append(uiQueue, Cb("progress", w, "", gdone'[w]))
          /\ UNCHANGED gpc
       \/ /\ gpc' = [gpc EXCEPT ![w] = "except"]
          /\ UNCHANGED <<gdone, uiQueue>>
    /\ UNCHANGED <<gpath, uiStatus, uiProgress, uiDone>>
    /\ UNCHANGED <<callVars, runsVars, cancelVars, arcVars>>

\* backup.py:93-96, 196-198: the archive is closed, backup_streaming makes
\* its final callback and returns, and the worker posts the end of the run.
WorkerReturn(w) ==
    /\ gpc[w] = "write"
    /\ gdone[w] = GuiScan.total
    /\ uiQueue' = uiQueue \o <<Cb("progress", w, "", GuiScan.total),
                               Cb("progress", w, "", GuiScan.total),
                               Cb("status", w, "Backup created", 0),
                               Cb("info", w, "Backup created", 0)>>
    /\ gpc' = [gpc EXCEPT ![w] = "done"]
    /\ UNCHANGED <<gpath, gdone, uiStatus, uiProgress, uiDone>>
    /\ UNCHANGED <<callVars, runsVars, cancelVars, arcVars>>

\* backup.py:199-201: the except block: the status and the error dialog are
\* posted; the dialog's lambda refers to the variable e of the block.
WorkerExcept(w) ==
    /\ gpc[w] = "except"
    /\ uiQueue' = uiQueue \o <<Cb("status", w, "Backup failed.", 0),
                               Cb("error", w, "WriteError", 0)>>
    /\ gpc' = [gpc EXCEPT ![w] = "leaving"]
    /\ UNCHANGED <<gpath, gdone, uiStatus, uiProgress, uiDone>>
    /\ UNCHANGED <<callVars, runsVars, cancelVars, arcVars>>

\* backup.py:199-201: the except block is left: "except ... as e" unbinds e,
\* and the worker thread ends.
WorkerLeave(w) ==
    /\ gpc[w] = "leaving"
    /\ gpc' = [gpc EXCEPT ![w] = "failed"]
    /\ UNCHANGED <<gpath, gdone, uiQueue, uiStatus, uiProgress, uiDone>>
    /\ UNCHANGED <<callVars, runsVars, cancelVars, arcVars>>

\* backup.py:201: the lambda of the error dialog is run. While the worker is
\* still inside the except block e is bound and the dialog carries its
\* message; afterwards reading e raises NameError and no dialog is shown.
ErrorDialog(cb) ==
    IF gpc[cb.w] = "leaving"
    THEN [kind |-> "error", w |-> cb.w, text |-> cb.text]
    ELSE [kind |-> "raised", w |-> cb.w, text |-> "NameError"]

\* backup.py:204-216, 198, 201: the event loop runs the oldest callback.
UiStep ==
    /\ uiQueue # <<>>
    /\ LET cb == Head(uiQueue)
       IN /\ uiQueue' = Tail(uiQueue)
          /\ uiStatus' = IF cb.kind = "status" THEN cb.text ELSE uiStatus
          /\ uiProgress' = IF cb.kind = "progress" THEN Shown(cb.w, cb.done)
                           ELSE uiProgress
          /\ uiDone' = IF cb.kind = "status"
                         THEN uiDone \cup {[kind |-> "status", w |-> cb.w, text |-> cb.text]}
                       ELSE IF cb.kind = "info"
                         THEN uiDone \cup {[kind |-> "info", w |-> cb.w, text |-> cb.text]}
                       ELSE IF cb.kind = "error"
                         THEN uiDone \cup {ErrorDialog(cb)}
                       ELSE uiDone
    /\ UNCHANGED <<gpc, gpath, gdone>>
    /\ UNCHANGED <<callVars, runsVars, cancelVars, arcVars>>

\* The source directory the two clicks name: at most the file a.
InitGui ==
    /\ InitSmall
    /\ Present(tree) \subseteq {<<"a">>}

NextGui ==
    \/ \E w \in Workers : StartBackup(w)
    \/ \E w \in Workers : WorkerScan(w)
    \/ \E w \in Workers : WorkerEnter(w)
    \/ \E w \in Workers : WorkerOpen(w)
    \/ \E w \in Workers : WorkerChunk(w)
    \/ \E w \in Workers : WorkerReturn(w)
    \/ \E w \in Workers : WorkerExcept(w)
    \/ \E w \in Workers : WorkerLeave(w)
    \/ UiStep
    \/ Tick

SpecGui == InitGui /\ [][NextGui]_vars

\* Run w holds its archive open for writing.
HoldsOpen(w) == gpc[w] = "write"

\* C16: when Create Backup is triggered twice with the same source and
\* destination, no two runs in progress hold the same archive file open
\* for writing, and the progress the window shows for a run in progress
\* is not replaced by that of the other run.
C16_RunsApart ==
    /\ \A v, w \in Workers : (v # w /\ HoldsOpen(v) /\ HoldsOpen(w)) => gpath[v] # gpath[w]
    /\ uiProgress.over = 0

\* Every callback of run w has been run by the event loop.
Drained(w) == \A i \in 1 .. Len(uiQueue) : uiQueue[i].w # w

\* C19: once the worker of a run has failed with an exception and the
\* event loop has run its callbacks, the status was set to "Backup failed."
\* and an error dialog with the exception's message was shown; a worker
\* that failed stays failed (checked as a state predicate: a failed worker
\* whose callbacks are done has both the status and the dialog).
C19_FailureShown ==
    \A w \in Workers :
        (gpc[w] = "failed" /\ Drained(w)) =>
            /\ [kind |-> "status", w |-> w, text |-> "Backup failed."] \in uiDone
            /\ [kind |-> "error", w |-> w, text |-> "WriteError"] \in uiDone

====
